---- MODULE Spec2Model ----
(***************************************************************************)
(* The login waiting list of The Forgotten Server (src/src/waitlist.cpp):  *)
(* WaitListInfo (the std::list of Wait entries and the priorityEnd         *)
(* iterator), WaitingList::clientLogin, WaitingList::getClientSlot,        *)
(* WaitingList::getTime and getTimeout.                                    *)
(***************************************************************************)
EXTENDS Integers, Sequences, FiniteSets, TLC

(***************************************************************************)
(* Bounds of the model.                                                    *)
(***************************************************************************)
\* the clock advances at most this many times
MaxTicks == 2
\* largest value of g_game.getPlayersOnline()
MaxOnline == 2
\* largest configured ConfigManager::MAX_PLAYERS
MaxMaxPlayers == 2
\* largest slot getTime and getTimeout are called with on their own
MaxSlot == 60
\* width of std::size_t in the model; every time of the model is far below
\* 2^SizeBits, as every real time is far below 2^64
SizeBits == 20

(***************************************************************************)
(* Players: what clientLogin reads of a Player.                            *)
(***************************************************************************)
\* the GUIDs of the accounts that try to log in: two premium accounts, two
\* standard ones, one with PlayerFlag_CanAlwaysLogin and one of a staff
\* account type
PremiumGUIDs == {1, 2}
StandardGUIDs == {3, 4}
FlagGUIDs == {5}
StaffGUIDs == {6}
Players == PremiumGUIDs \cup StandardGUIDs \cup FlagGUIDs \cup StaffGUIDs

\* player->hasFlag(PlayerFlag_CanAlwaysLogin)
hasFlag(player) == player \in FlagGUIDs
\* player->getAccountType() >= ACCOUNT_TYPE_GAMEMASTER
isStaff(player) == player \in StaffGUIDs
\* player->isPremium()
isPremium(player) == player \in PremiumGUIDs

(***************************************************************************)
(* State.                                                                  *)
(***************************************************************************)
VARIABLES
    waitList,     \* WaitListInfo::waitList: sequence of [timeout, playerGUID]
    priorityEnd,  \* WaitListInfo::priorityEnd: where the iterator points
    clock,        \* OTSYS_TIME(), milliseconds
    online,       \* g_game.getPlayersOnline()
    maxPlayers,   \* g_config.getNumber(ConfigManager::MAX_PLAYERS)
    call,         \* the call that produced this state, and what it returned
    crashed       \* the process left defined behaviour and stopped

vars == <<waitList, priorityEnd, clock, online, maxPlayers, call, crashed>>

\* struct Wait
Wait(timeout, playerGUID) == [timeout |-> timeout, playerGUID |-> playerGUID]

\* priorityEnd == waitList.end()
AtEnd == [kind |-> "end", guid |-> 0, reuse |-> {}]
\* priorityEnd points at the node holding guid
AtNode(guid) == [kind |-> "node", guid |-> guid, reuse |-> {}]
\* priorityEnd points at an erased node; reuse: the nodes allocated since,
\* one of which may have been given the erased node's storage
Dangling(reuse) == [kind |-> "dangling", guid |-> 0, reuse |-> reuse]

\* what a call left behind: op, the player, clientLogin's bool, the line of
\* waitlist.cpp it returned from and its local `slot` there (0 before line
\* 111), getClientSlot's slot
NoCall ==
    [op |-> "none", player |-> 0, admit |-> FALSE, line |-> 0, slot |-> 0]
LoginCall(player, admit, line, slot) ==
    [op |-> "clientLogin", player |-> player, admit |-> admit,
     line |-> line, slot |-> slot]
SlotCall(player, slot) ==
    [op |-> "getClientSlot", player |-> player, admit |-> FALSE,
     line |-> 0, slot |-> slot]
\* clientLogin entered and never returned
LostCall(player) ==
    [op |-> "clientLoginLost", player |-> player, admit |-> FALSE,
     line |-> 0, slot |-> 0]

(***************************************************************************)
(* Timeout policy.                                                         *)
(***************************************************************************)
\* getTime with <= for <
getTimeInclusive(slot) ==
    IF slot <= 5 THEN 5
    ELSE IF slot <= 10 THEN 10
    ELSE IF slot <= 20 THEN 20
    ELSE IF slot <= 50 THEN 60
    ELSE 120

\* WaitingList::getTime
getTime(slot) ==
    IF slot < 5 THEN 5
    ELSE IF slot < 10 THEN 10
    ELSE IF slot < 20 THEN 20
    ELSE IF slot < 50 THEN 60
    ELSE 120

getTimeout(slot) == getTime(slot) + 15

\* the clock is read at multiples of the first slots' timeout, so that a
\* deadline can lie after, at and before the time of a call
TickMs == getTimeout(1) * 1000

(***************************************************************************)
(* The list.                                                               *)
(***************************************************************************)
GUIDsOf(list) == {list[i].playerGUID : i \in 1..Len(list)}

\* index of the first node holding guid (0: none)
IndexOf(list, guid) ==
    IF \E i \in 1..Len(list) : list[i].playerGUID = guid
    THEN CHOOSE i \in 1..Len(list) :
            /\ list[i].playerGUID = guid
            /\ \A j \in 1..(i - 1) : list[j].playerGUID # guid
    ELSE 0

\* findClient with the scan started at the second node
findClientFromSecond(list, player) ==
    LET i == IndexOf(list, player)
    IN IF i > 1 THEN [found |-> TRUE, slot |-> i]
       ELSE [found |-> FALSE, slot |-> Len(list) + 1]

\* WaitListInfo::findClient: {it, slot}; it == end() is found = FALSE
findClient(list, player) ==
    LET i == IndexOf(list, player)
    IN IF i # 0 THEN [found |-> TRUE, slot |-> i]
       ELSE [found |-> FALSE, slot |-> Len(list) + 1]

\* a - b computed in std::size_t (b, an int64_t, is converted to unsigned)
SizeSub(a, b) == (a - b) % (2 ^ SizeBits)

\* line 103 with the operands exchanged, in signed arithmetic
ExpiredSwapped(entry, time) == time - entry.timeout <= 0

\* (it->timeout - time) <= 0
Expired(entry, time) == SizeSub(entry.timeout, time) <= 0

\* the while loop of clientLogin: erase every node the test selects
Purge(list, time) == SelectSeq(list, LAMBDA e : ~Expired(e, time))

\* line 115 left out
EraseAtKeeps(list, i) == list

\* line 115 erasing the node after it
EraseAtNext(list, i) == SubSeq(list, 1, i) \o SubSeq(list, i + 2, Len(list))

\* list.erase(it) for the node at index i
EraseAt(list, i) == SubSeq(list, 1, i - 1) \o SubSeq(list, i + 1, Len(list))

\* list.emplace(pos, e) with pos the node at index i (Len + 1: end())
EmplaceAt(list, i, e) ==
    SubSeq(list, 1, i - 1) \o <<e>> \o SubSeq(list, i, Len(list))

\* priorityEnd once the list has become `list`: erasing a node invalidates
\* the iterators to it and no others
AfterErase(pe, list) ==
    IF pe.kind = "node" /\ pe.guid \notin GUIDsOf(list) THEN Dangling({})
    ELSE IF pe.kind = "dangling" THEN Dangling(pe.reuse \cap GUIDsOf(list))
    ELSE pe

\* priorityEnd once emplace_back has allocated a node for guid
AfterAlloc(pe, guid) ==
    IF pe.kind = "dangling" THEN Dangling(pe.reuse \cup {guid}) ELSE pe

\* 1-based index of the node priorityEnd points at (Len + 1: end());
\* std::distance(begin(), priorityEnd) + 1
PriorityIndex(pe, list) ==
    IF pe.kind = "end" THEN Len(list) + 1 ELSE IndexOf(list, pe.guid)

(***************************************************************************)
(* clientLogin.                                                            *)
(***************************************************************************)
\* line 90 without the account type
BypassFlagOnly(player) == hasFlag(player)

\* line 90: the caller never queues
Bypass(player) == hasFlag(player) \/ isStaff(player)

\* line 95 without maxPlayers == 0
NoQueueNeededLimited(list, playersOnline, maxP) ==
    list = <<>> /\ playersOnline < maxP

\* line 95 without the empty waiting list
NoQueueNeededUnlimited(list, playersOnline, maxP) == maxP = 0

\* line 95 with <= for <
NoQueueNeededInclusive(list, playersOnline, maxP) ==
    maxP = 0 \/ (list = <<>> /\ playersOnline <= maxP)

\* line 95
NoQueueNeeded(list, playersOnline, maxP) ==
    maxP = 0 \/ (list = <<>> /\ playersOnline < maxP)

\* line 113 with < for <=
CanLoginNowStrict(playersOnline, slot, maxP) == playersOnline + slot < maxP

\* line 113
CanLoginNow(playersOnline, slot, maxP) == playersOnline + slot <= maxP

\* the deadline with the timeout of the first slot, whatever the slot
DeadlineFirstSlot(time, slot) == time + (getTimeout(1) * 1000)

\* line 120 and lines 126, 128: time + (getTimeout(slot) * 1000)
Deadline(time, slot) == time + (getTimeout(slot) * 1000)

Returns(player, admit, line, slot) ==
    call' = LoginCall(player, admit, line, slot)

\* lines 112-122: the caller has an entry at fc.slot of the purged list
Requeue(player, list, pe, fc, time) ==
    IF CanLoginNow(online, fc.slot, maxPlayers)
    THEN /\ waitList' = EraseAt(list, fc.slot)
         /\ priorityEnd' = AfterErase(pe, EraseAt(list, fc.slot))
         /\ Returns(player, TRUE, 116, fc.slot)
         /\ UNCHANGED crashed
    ELSE /\ waitList' = [list EXCEPT ![fc.slot].timeout = Deadline(time, fc.slot)]
         /\ priorityEnd' = pe
         /\ Returns(player, FALSE, 121, fc.slot)
         /\ UNCHANGED crashed

\* lines 125-126 with a valid priorityEnd
EmplacePremium(player, list, pe, time) ==
    LET slot == PriorityIndex(pe, list) - 1
    IN /\ waitList' = EmplaceAt(list, slot + 1,
                                Wait(Deadline(time, slot + 1), player))
       /\ priorityEnd' = AtNode(player)
       /\ Returns(player, FALSE, 130, slot)
       /\ UNCHANGED crashed

\* lines 125-126 with priorityEnd pointing at an erased node: undefined
\* behaviour. Either the erased node's storage now holds a live node of the
\* list, and priorityEnd acts as an iterator to that node, or std::distance
\* never reaches it and the call does not return.
EmplacePremiumDangling(player, list, pe, time) ==
    \/ \E g \in pe.reuse :
          EmplacePremium(player, list, AtNode(g), time)
    \/ /\ crashed' = TRUE
       /\ waitList' = list
       /\ priorityEnd' = pe
       /\ call' = LostCall(player)

\* line 128
EmplaceStandard(player, list, pe, fc, time) ==
    /\ waitList' = Append(list, Wait(Deadline(time, Len(list) + 1), player))
    /\ priorityEnd' = AfterAlloc(pe, player)
    /\ Returns(player, FALSE, 130, fc.slot)
    /\ UNCHANGED crashed

\* lines 99-130
Queue(player) ==
    LET time == clock
        list == Purge(waitList, time)
        pe == AfterErase(priorityEnd, list)
        fc == findClient(list, player)
    IN IF fc.found THEN Requeue(player, list, pe, fc, time)
       ELSE IF ~isPremium(player)
            THEN EmplaceStandard(player, list, pe, fc, time)
       ELSE IF pe.kind = "dangling"
            THEN EmplacePremiumDangling(player, list, pe, time)
       ELSE EmplacePremium(player, list, pe, time)

clientLogin(player) ==
    /\ ~crashed
    /\ UNCHANGED <<clock, online, maxPlayers>>
    /\ IF Bypass(player)
       THEN /\ Returns(player, TRUE, 91, 0)
            /\ UNCHANGED <<waitList, priorityEnd, crashed>>
       ELSE IF NoQueueNeeded(waitList, online, maxPlayers)
       THEN /\ Returns(player, TRUE, 96, 0)
            /\ UNCHANGED <<waitList, priorityEnd, crashed>>
       ELSE Queue(player)

(***************************************************************************)
(* getClientSlot.                                                          *)
(***************************************************************************)
\* getClientSlot without the test of line 138
ClientSlotUnchecked(list, player) == findClient(list, player).slot

\* lines 135-141
ClientSlot(list, player) ==
    LET fc == findClient(list, player)
    IN IF ~fc.found THEN 0 ELSE fc.slot

getClientSlot(player) ==
    /\ ~crashed
    /\ call' = SlotCall(player, ClientSlot(waitList, player))
    /\ UNCHANGED <<waitList, priorityEnd, clock, online, maxPlayers, crashed>>

(***************************************************************************)
(* The collaborators: the clock, the game and the configuration.           *)
(***************************************************************************)
Tick ==
    /\ ~crashed
    /\ clock < MaxTicks * TickMs
    /\ clock' = clock + TickMs
    /\ call' = NoCall
    /\ UNCHANGED <<waitList, priorityEnd, online, maxPlayers, crashed>>

SetOnline ==
    /\ ~crashed
    /\ \E n \in 0..MaxOnline : n # online /\ online' = n
    /\ call' = NoCall
    /\ UNCHANGED <<waitList, priorityEnd, clock, maxPlayers, crashed>>

SetMaxPlayers ==
    /\ ~crashed
    /\ \E m \in 0..MaxMaxPlayers : m # maxPlayers /\ maxPlayers' = m
    /\ call' = NoCall
    /\ UNCHANGED <<waitList, priorityEnd, clock, online, crashed>>

Init ==
    /\ waitList = <<>>
    /\ priorityEnd = AtEnd
    /\ clock = 0
    /\ online \in 0..MaxOnline
    /\ maxPlayers \in 0..MaxMaxPlayers
    /\ call = NoCall
    /\ crashed = FALSE

Next ==
    \/ \E player \in Players : clientLogin(player)
    \/ \E player \in Players : getClientSlot(player)
    \/ Tick
    \/ SetOnline
    \/ SetMaxPlayers

Spec == Init /\ [][Next]_vars

(***************************************************************************)
(* A long queue: one premium account and four standard ones log in while  *)
(* the server stays full, so that entries reach slot 5, where getTimeout   *)
(* changes.                                                                *)
(***************************************************************************)
MoreStandardGUIDs == {7, 8}
LongQueuePlayers == {1} \cup StandardGUIDs \cup MoreStandardGUIDs

LongQueueInit == Init /\ maxPlayers = 1 /\ online = 1

LongQueueNext ==
    \/ \E player \in LongQueuePlayers : clientLogin(player)
    \/ Tick

LongQueueSpec == LongQueueInit /\ [][LongQueueNext]_vars

(***************************************************************************)
(* The timeout policy on its own: getTime and getTimeout called with every *)
(* slot up to MaxSlot, with no waiting list.                               *)
(***************************************************************************)
\* what a call of getTime or getTimeout left behind
TimeCall(op, slot, seconds) ==
    [op |-> op, player |-> 0, admit |-> FALSE, line |-> 0, slot |-> slot,
     seconds |-> seconds]

getTimeCall(slot) ==
    /\ call' = TimeCall("getTime", slot, getTime(slot))
    /\ UNCHANGED <<waitList, priorityEnd, clock, online, maxPlayers, crashed>>

getTimeoutCall(slot) ==
    /\ call' = TimeCall("getTimeout", slot, getTimeout(slot))
    /\ UNCHANGED <<waitList, priorityEnd, clock, online, maxPlayers, crashed>>

TimeInit ==
    /\ waitList = <<>>
    /\ priorityEnd = AtEnd
    /\ clock = 0
    /\ online = 0
    /\ maxPlayers = 0
    /\ call = NoCall
    /\ crashed = FALSE

TimeNext ==
    \/ \E slot \in 1..MaxSlot : getTimeCall(slot)
    \/ \E slot \in 1..MaxSlot : getTimeoutCall(slot)

TimeSpec == TimeInit /\ [][TimeNext]_vars

(***************************************************************************)
(* Vocabulary of the properties.                                           *)
(***************************************************************************)
Queued == GUIDsOf(waitList)
\* the entries of the list as a set
EntriesOf(list) == {list[i] : i \in 1..Len(list)}
\* some entry's deadline has elapsed
HasElapsed(list, time) == \E e \in EntriesOf(list) : e.timeout <= time
\* this step is a clientLogin call of player
LoginStep(player) ==
    /\ call'.op \in {"clientLogin", "clientLoginLost"}
    /\ call'.player = player
\* this step is a clientLogin call of player that returned
LoginReturned(player) == call'.op = "clientLogin" /\ call'.player = player
\* the state follows a clientLogin call that returned from `line`
After(line) == call.op = "clientLogin" /\ call.line = line

(***************************************************************************)
(* C1: every queued entry of a premium player has a strictly smaller slot  *)
(* (as getClientSlot reports it) than every queued entry of a non-premium  *)
(* player.                                                                 *)
(***************************************************************************)
C1_PremiumBeforeStandard ==
    \A p \in Queued, q \in Queued :
        isPremium(p) /\ ~isPremium(q)
            => ClientSlot(waitList, p) < ClientSlot(waitList, q)

(***************************************************************************)
(* C2: within each segment arrival order is preserved: an entry a call     *)
(* creates is behind every queued entry of the same kind, and no step      *)
(* changes the relative order of two entries of the same kind that stay.   *)
(***************************************************************************)
SameKind(p, q) == isPremium(p) <=> isPremium(q)

C2_NewEntryLast ==
    \A p \in Players :
        LoginReturned(p) /\ call'.line = 130
            => \A q \in GUIDsOf(waitList') \ {p} :
                  SameKind(p, q)
                      => ClientSlot(waitList', q) < ClientSlot(waitList', p)

C2_OrderKept ==
    \A q \in Queued, r \in Queued :
        /\ SameKind(q, r)
        /\ q \in GUIDsOf(waitList') /\ r \in GUIDsOf(waitList')
        /\ ~(call'.op = "clientLogin" /\ call'.line = 130
               /\ call'.player \in {q, r})
        /\ ClientSlot(waitList, q) < ClientSlot(waitList, r)
        => ClientSlot(waitList', q) < ClientSlot(waitList', r)

C2_ArrivalOrder == [][C2_NewEntryLast /\ C2_OrderKept]_vars

(***************************************************************************)
(* C3: an entry whose deadline has elapsed (deadline <= current time) is   *)
(* no longer in the queue after the next clientLogin call of any player,   *)
(* its owner or another. The calls taken are those that get as far as the  *)
(* purge pass (a caller that queues, maxPlayers > 0): the reading most in  *)
(* the code's favour.                                                      *)
(***************************************************************************)
C3_ElapsedRemovedByNextLogin ==
    [][\A p \in Players :
          LoginStep(p) /\ ~Bypass(p) /\ maxPlayers > 0
              => \A e \in EntriesOf(waitList) :
                    e.timeout <= clock => e \notin EntriesOf(waitList')]_vars

(***************************************************************************)
(* C4: a queued player that does not bypass the queue calls clientLogin    *)
(* with maxPlayers > 0: if online + slot <= maxPlayers, slot being its     *)
(* slot after the purge, the call admits and removes the entry; otherwise  *)
(* the call denies and the entry stays.                                    *)
(***************************************************************************)
C4_AdmitAtSlot ==
    [][\A p \in Players :
          /\ LoginStep(p)
          /\ ~Bypass(p)
          /\ maxPlayers > 0
          /\ p \in GUIDsOf(Purge(waitList, clock))
          => LET slot == ClientSlot(Purge(waitList, clock), p)
             IN /\ call'.op = "clientLogin"
                /\ IF online + slot <= maxPlayers
                   THEN call'.admit /\ p \notin GUIDsOf(waitList')
                   ELSE ~call'.admit /\ p \in GUIDsOf(waitList')]_vars

\* the player in slot 2 has just been admitted with nobody online
C4_Witness ==
    /\ After(116)
    /\ call.admit
    /\ call.slot = 2
    /\ maxPlayers = 2
    /\ online = 0
    /\ call.player \notin Queued

(***************************************************************************)
(* C5: with maxPlayers = 0 clientLogin admits every player in every state  *)
(* and leaves every queue entry as it is.                                  *)
(***************************************************************************)
C5_UnlimitedAdmitsAll ==
    [][\A p \in Players :
          LoginStep(p) /\ maxPlayers = 0
              => /\ call'.op = "clientLogin"
                 /\ call'.admit
                 /\ waitList' = waitList
                 /\ priorityEnd' = priorityEnd]_vars

\* a queued player has just been admitted by maxPlayers = 0 over a queue
\* that holds an elapsed entry
C5_Witness ==
    /\ After(96)
    /\ call.admit
    /\ maxPlayers = 0
    /\ online = MaxOnline
    /\ call.player \in Queued
    /\ HasElapsed(waitList, clock)

(***************************************************************************)
(* C6: with an empty queue and online < maxPlayers clientLogin admits the  *)
(* caller and the queue is still empty.                                    *)
(***************************************************************************)
C6_EmptyQueueAdmits ==
    [][\A p \in Players :
          LoginStep(p) /\ waitList = <<>> /\ online < maxPlayers
              => /\ call'.op = "clientLogin"
                 /\ call'.admit
                 /\ waitList' = <<>>]_vars

\* a standard player has just been admitted below the limit, no queue
C6_Witness ==
    /\ After(96)
    /\ call.admit
    /\ ~isPremium(call.player)
    /\ maxPlayers > 0
    /\ online < maxPlayers
    /\ waitList = <<>>

(***************************************************************************)
(* C7: a caller with the always-allowed flag or of a staff account type is *)
(* admitted in every state, and the call leaves the queue and the priority *)
(* boundary unchanged.                                                     *)
(***************************************************************************)
C7_BypassAdmitted ==
    [][\A p \in Players :
          LoginStep(p) /\ (hasFlag(p) \/ isStaff(p))
              => /\ call'.op = "clientLogin"
                 /\ call'.admit
                 /\ waitList' = waitList
                 /\ priorityEnd' = priorityEnd]_vars

\* a staff account has just been admitted with the server full and a queue
\* that holds an elapsed entry
C7_Witness ==
    /\ call.op = "clientLogin"
    /\ isStaff(call.player)
    /\ call.admit
    /\ maxPlayers > 0
    /\ online >= maxPlayers
    /\ HasElapsed(waitList, clock)

(***************************************************************************)
(* C8: getClientSlot returns 0 exactly when the player has no entry, the   *)
(* 1-based position of the player's entry otherwise, and changes nothing   *)
(* of the queue.                                                           *)
(***************************************************************************)
C8_SlotIsPosition ==
    [][\A p \in Players :
          call'.op = "getClientSlot" /\ call'.player = p
              => /\ waitList' = waitList
                 /\ priorityEnd' = priorityEnd
                 /\ call'.slot = 0 <=> p \notin Queued
                 /\ p \in Queued
                      => /\ call'.slot \in 1..Len(waitList)
                         /\ waitList[call'.slot].playerGUID = p]_vars

\* getClientSlot has just reported slot 2 from a queue that holds an
\* elapsed entry
C8_Witness ==
    /\ call.op = "getClientSlot"
    /\ call.slot = 2
    /\ HasElapsed(waitList, clock)

(***************************************************************************)
(* C9: no two entries of the queue share the same playerGUID.              *)
(***************************************************************************)
C9_NoDuplicateGUID ==
    \A i \in 1..Len(waitList), j \in 1..Len(waitList) :
        waitList[i].playerGUID = waitList[j].playerGUID => i = j

\* a queued player has just called again and been denied
C9_Witness ==
    /\ After(121)
    /\ Len(waitList) >= 2
    /\ call.player \in Queued

(***************************************************************************)
(* C10: the priority boundary lies between the start and the end of the    *)
(* queue, every entry before it is premium and every entry at or after it  *)
(* is standard.                                                            *)
(***************************************************************************)
C10_BoundarySplitsKinds ==
    /\ priorityEnd.kind # "dangling"
    /\ LET b == PriorityIndex(priorityEnd, waitList)
       IN /\ b \in 1..(Len(waitList) + 1)
          /\ \A i \in 1..Len(waitList) :
                IF i < b THEN isPremium(waitList[i].playerGUID)
                ELSE ~isPremium(waitList[i].playerGUID)

(***************************************************************************)
(* C11: an entry leaves the queue only by admission of its own player or   *)
(* by expiry: no call removes an entry whose deadline is still in the      *)
(* future unless it is the clientLogin of the entry's player and admits.   *)
(***************************************************************************)
C11_RemovedOnlyByAdmitOrExpiry ==
    [][\A e \in EntriesOf(waitList) :
          e.timeout > clock /\ e.playerGUID \notin GUIDsOf(waitList')
              => /\ call'.op = "clientLogin"
                 /\ call'.player = e.playerGUID
                 /\ call'.admit]_vars

\* a player has just been admitted from the queue, and an entry that has
\* not expired and one whose deadline has elapsed are behind
C11_Witness ==
    /\ After(116)
    /\ call.admit
    /\ \E e \in EntriesOf(waitList) : e.timeout > clock
    /\ HasElapsed(waitList, clock)

(***************************************************************************)
(* C12: the result of clientLogin matches the player's queue membership    *)
(* afterwards: after admit getClientSlot(p) is 0, after deny p holds       *)
(* exactly one entry and getClientSlot(p) >= 1.                            *)
(***************************************************************************)
EntryCount(list, player) ==
    Cardinality({i \in 1..Len(list) : list[i].playerGUID = player})

C12_ResultMatchesMembership ==
    call.op = "clientLogin"
        => IF call.admit
           THEN ClientSlot(waitList, call.player) = 0
           ELSE /\ EntryCount(waitList, call.player) = 1
                /\ ClientSlot(waitList, call.player) >= 1

\* C12 as amended: the same with maxPlayers > 0 for the admit; with
\* maxPlayers = 0 a queued caller is admitted and keeps its entry
C12_ResultMatchesMembershipLimited ==
    call.op = "clientLogin"
        => IF call.admit
           THEN maxPlayers > 0 => ClientSlot(waitList, call.player) = 0
           ELSE /\ EntryCount(waitList, call.player) = 1
                /\ ClientSlot(waitList, call.player) >= 1

\* the first of several queued players has just been admitted
C12_Witness ==
    /\ After(116)
    /\ call.admit
    /\ call.slot = 1
    /\ maxPlayers = 1
    /\ online = 0
    /\ waitList # <<>>
    /\ ClientSlot(waitList, call.player) = 0

(***************************************************************************)
(* C13: getTime is a non-decreasing step function of the slot: 5 for slots *)
(* 1..4, 10 for 5..9, 20 for 10..19, 60 for 20..49, 120 from 50 on; and    *)
(* getTimeout(slot) is that value plus 15 for every slot.                  *)
(***************************************************************************)
\* the table of the specification
BaseWait(slot) ==
    CASE slot \in 1..4 -> 5
      [] slot \in 5..9 -> 10
      [] slot \in 10..19 -> 20
      [] slot \in 20..49 -> 60
      [] OTHER -> 120

C13_StepFunction ==
    /\ call.op = "getTime"
          => /\ call.seconds = BaseWait(call.slot)
             /\ \A smaller \in 1..call.slot : getTime(smaller) <= call.seconds
    /\ call.op = "getTimeout" => call.seconds = BaseWait(call.slot) + 15

\* getTimeout has just been called with slot 50
C13_Witness ==
    /\ call.op = "getTimeout"
    /\ call.slot = 50
    /\ call.seconds = 135

(***************************************************************************)
(* C14: a queued player calls clientLogin with online + slot > maxPlayers, *)
(* slot being its position after the purge: the call denies, the entry's   *)
(* deadline becomes now + retryTimeout(slot) * 1000 and the entry is still *)
(* at that position.                                                       *)
(***************************************************************************)
C14_RefreshAtSlot ==
    [][\A p \in LongQueuePlayers :
          /\ LoginStep(p)
          /\ ~Bypass(p)
          /\ maxPlayers > 0
          /\ p \in GUIDsOf(Purge(waitList, clock))
          /\ online + ClientSlot(Purge(waitList, clock), p) > maxPlayers
          => LET slot == ClientSlot(Purge(waitList, clock), p)
             IN /\ call'.op = "clientLogin"
                /\ ~call'.admit
                /\ ClientSlot(waitList', p) = slot
                /\ waitList'[slot].timeout
                     = clock + ((BaseWait(slot) + 15) * 1000)]_vars

\* the player in slot 5 has just called again and been denied
C14_Witness ==
    /\ After(121)
    /\ ~call.admit
    /\ call.slot = 5
    /\ ClientSlot(waitList, call.player) = 5
    /\ waitList[5].timeout = clock + 25000

(***************************************************************************)
(* C15: when a player with no entry is denied, the new entry's deadline is *)
(* now + retryTimeout(slot) * 1000, slot being the slot the entry occupies *)
(* right after the call: the new queue length for a standard player, the   *)
(* end of the priority segment for a premium player.                       *)
(***************************************************************************)
\* the deadline of p's entry is the one of the slot it occupies
C15_DeadlineOfOwnSlot(p) ==
    LET slot == ClientSlot(waitList', p)
    IN /\ slot >= 1
       /\ waitList'[slot].timeout = clock + ((BaseWait(slot) + 15) * 1000)

\* p's entry is the last of the queue (standard) or the last of the premium
\* entries, which are in front of every standard entry (premium)
C15_SlotOfSegment(p) ==
    ClientSlot(waitList', p) =
        IF isPremium(p)
        THEN Cardinality({q \in GUIDsOf(waitList') : isPremium(q)})
        ELSE Len(waitList')

C15_NewEntryDeadline ==
    [][\A p \in Players :
          LoginReturned(p) /\ call'.line = 130
              => C15_DeadlineOfOwnSlot(p) /\ C15_SlotOfSegment(p)]_vars

(***************************************************************************)
(* C16: the purge pass of clientLogin (a caller that queues, maxPlayers >  *)
(* 0, and a non-empty queue or online >= maxPlayers) removes exactly the   *)
(* entries with deadline <= now and keeps exactly those with deadline >    *)
(* now. Stated of the entries of the other players, which nothing but the  *)
(* purge pass touches.                                                     *)
(***************************************************************************)
C16_PurgeRemovesElapsed ==
    [][\A p \in Players :
          /\ LoginStep(p)
          /\ ~Bypass(p)
          /\ maxPlayers > 0
          /\ (waitList # <<>> \/ online >= maxPlayers)
          => \A e \in EntriesOf(waitList) :
                e.playerGUID # p
                    => (e \in EntriesOf(waitList') <=> e.timeout > clock)]_vars

(***************************************************************************)
(* C17: whenever an entry is removed, by the purge pass or by admission,   *)
(* the priority boundary afterwards refers to an entry still in the queue  *)
(* or to its end, so that a later premium insertion uses a valid position  *)
(* and returns.                                                            *)
(***************************************************************************)
C17_BoundaryValid ==
    /\ priorityEnd.kind \in {"end", "node"}
    /\ priorityEnd.kind = "node" => priorityEnd.guid \in Queued
    /\ call.op # "clientLoginLost"

(***************************************************************************)
(* C18: when clientLogin admits a caller that does not bypass the queue,   *)
(* with maxPlayers > 0, then online < maxPlayers at that call, and for a   *)
(* caller admitted from slot s, online + s <= maxPlayers.                  *)
(***************************************************************************)
C18_AdmitWithinCapacity ==
    /\ call.op = "clientLogin"
    /\ call.admit
    /\ ~(hasFlag(call.player) \/ isStaff(call.player))
    /\ maxPlayers > 0
    => /\ online < maxPlayers
       /\ call.line = 116
            => call.slot >= 1 /\ online + call.slot <= maxPlayers

\* the first of the queue has just been admitted into the last free place
C18_Witness ==
    /\ After(116)
    /\ call.admit
    /\ call.slot = 1
    /\ maxPlayers = 2
    /\ online = 1

(***************************************************************************)
(* C19: a player with no entry that does not bypass the queue and calls    *)
(* clientLogin with maxPlayers > 0 and a non-empty queue is denied and     *)
(* gets an entry, whatever the online count and whatever the purge pass    *)
(* of that call removes.                                                   *)
(***************************************************************************)
C19_NewcomerQueuesBehindQueue ==
    [][\A p \in Players :
          /\ LoginStep(p)
          /\ ~Bypass(p)
          /\ maxPlayers > 0
          /\ waitList # <<>>
          /\ p \notin Queued
          => /\ call'.op = "clientLogin"
             /\ ~call'.admit
             /\ EntryCount(waitList', p) = 1]_vars

(***************************************************************************)
(* C20: a clientLogin call of player p changes no deadline of another      *)
(* player's entry and not the relative order of the other players' entries *)
(* that stay; it changes other players' entries only by removing expired   *)
(* ones.                                                                   *)
(***************************************************************************)
\* the entries of the players other than p, in their order
OthersOf(list, p) == SelectSeq(list, LAMBDA e : e.playerGUID # p)

C20_OthersUntouched ==
    [][call'.op \in {"clientLogin", "clientLoginLost"} /\ waitList' # waitList
          => LET p == call'.player
                 before == OthersOf(waitList, p)
                 after == OthersOf(waitList', p)
             IN /\ after = SelectSeq(before, LAMBDA e : e \in EntriesOf(after))
                /\ \A e \in EntriesOf(before) :
                       e \notin EntriesOf(after) => e.timeout <= clock]_vars

\* a premium player has just been queued in front of two other entries
C20_Witness ==
    /\ After(130)
    /\ isPremium(call.player)
    /\ ClientSlot(waitList, call.player) = 1
    /\ Len(waitList) >= 3

====
